---- MODULE Spec2Model ----
(***************************************************************************)
(* The user-provisioning consumer of                                       *)
(* backend/open_webui/services/kafka_consumer.py:                          *)
(* consume_user_created_events pulls user identifiers from the bus,        *)
(* fetch_user_from_authserver resolves each into a profile, and the loop   *)
(* body inserts the user into the account store unless it is disabled,     *)
(* has no email or already exists.                                         *)
(*                                                                         *)
(* Strings are sequences of one-character strings, byte strings are        *)
(* sequences of byte codes, and a JSON value is a tagged record            *)
(* [t |-> kind, v |-> payload].                                            *)
(***************************************************************************)
EXTENDS Naturals, Sequences, FiniteSets

VARIABLES
    pc,          \* where consume_user_created_events stands
    cfg,         \* the module-level OAuth2 settings (lines 24-28)
    consumer,    \* the AIOKafkaConsumer: "none", "created", "started", "stopped"
    connects,    \* consumer.start() attempts so far
    stops,       \* consumer.stop() calls so far
    delivered,   \* records pulled from the subscription so far
    raw,         \* the bytes of the record pulled last
    msg,         \* msg.value of the message in the loop body
    resp,        \* what the identity service answered for this message
    user_data,   \* authserver_user_data
    loc,         \* the loop body's locals after lines 125-142
    store,       \* the account store's rows, on the columns the consumer reads
    before,      \* the store as it was when the current message arrived
    ledger,      \* per provisioned identity, the insert calls since it succeeded
    cnt,         \* calls made for the current message
    lastInsert,  \* the arguments of this message's insert_new_auth call
    outcome,     \* how the current message ended ("none" while in progress)
    raised,      \* the exception that left consume_user_created_events
    user_uuid,   \* fetch_user_from_authserver: its argument
    url,         \* fetch_user_from_authserver: the address of line 48 (<<>> before)
    handler,     \* the speech-to-text handler called: "openai", "azure"
    spc,         \* where the handler stands
    audio_format,    \* what get_audio_format returned ("unset" before)
    files,       \* which of the original, converted and transcript files exist
    cleanup_file,    \* the handler's cleanup_file: "None" or "converted"
    sent,        \* requests the handler sent to the speech service
    pending,     \* how the try block ended: "return" or "raise" ("none" before)
    remove_failed,   \* os.remove of the finally clause raised
    ppc,         \* where poll_for_transcription_results stands
    elapsed,     \* seconds since its start_time
    polls,       \* status requests it made
    job_status,  \* the status it read last ("none" before)
    presult,     \* how it ended: "result", "error", "timeout" ("none" before)
    lpc,         \* where handle_local_stt stands
    whisper,     \* request.app.state.faster_whisper_model: "unset", "None", "model"
    model,       \* request.app.state.config.WHISPER_MODEL is a name (not empty)
    auto_update, \* WHISPER_MODEL_AUTO_UPDATE
    attempts,    \* local_files_only of each WhisperModel(...) call of this call
    set_result,  \* what set_faster_whisper_model returned ("none" before)
    calls        \* calls of handle_local_stt so far

\* the state of consume_user_created_events
consumer_vars ==
    <<pc, cfg, consumer, connects, stops, delivered, raw, msg, resp,
      user_data, loc, store, before, ledger, cnt, lastInsert, outcome, raised>>

\* the state of the functions checked on their own
url_vars == <<user_uuid, url>>
stt_vars == <<handler, spc, audio_format, files, cleanup_file, sent, pending, remove_failed>>
poll_vars == <<ppc, elapsed, polls, job_status, presult>>
local_vars == <<lpc, whisper, model, auto_update, attempts, set_result, calls>>
elsewhere == <<url_vars, stt_vars, poll_vars, local_vars>>

vars == <<consumer_vars, elsewhere>>

----------------------------------------------------------------------------
(* Bounds of the model *)

\* records the bus delivers in one run
MaxMsgs == 3

\* rows other writers add to the store
MaxExternal == 1

----------------------------------------------------------------------------
(* Values *)

NONE == [t |-> "null", v |-> <<>>]
ABSENT == [t |-> "absent", v |-> <<>>]
Str(s) == [t |-> "str", v |-> s]
Num(s) == [t |-> "num", v |-> s]
Bool(b) == [t |-> "bool", v |-> b]
List(s) == [t |-> "list", v |-> s]

\* Python truthiness of a JSON value
Truthy(x) ==
    CASE x.t = "str" -> x.v # <<>>
      [] x.t = "list" -> x.v # <<>>
      [] x.t = "num" -> x.v # <<"0">>
      [] x.t = "bool" -> x.v
      [] OTHER -> FALSE

LowerLetters == <<"a", "b", "d", "e", "i", "m", "n", "r", "s", "u", "x">>
UpperLetters == <<"A", "B", "D", "E", "I", "M", "N", "R", "S", "U", "X">>

IndexIn(c, table) == CHOOSE i \in 1..Len(table) : table[i] = c
IsIn(c, table) == \E i \in 1..Len(table) : table[i] = c

UpperChar(c) == IF IsIn(c, LowerLetters) THEN UpperLetters[IndexIn(c, LowerLetters)] ELSE c
LowerChar(c) == IF IsIn(c, UpperLetters) THEN LowerLetters[IndexIn(c, UpperLetters)] ELSE c

\* str.upper() and str.lower()
PyUpper(s) == [i \in 1..Len(s) |-> UpperChar(s[i])]
PyLower(s) == [i \in 1..Len(s) |-> LowerChar(s[i])]

\* sub in s
Contains(s, sub) ==
    \E i \in 0..Len(s) :
        /\ i + Len(sub) <= Len(s)
        /\ SubSeq(s, i + 1, i + Len(sub)) = sub

\* str(x) of a list element: a string is itself, a number its digits
PyStr(x) == x.v

Whitespace == {" "}

\* not s.strip()
StripsToEmpty(s) == \A i \in 1..Len(s) : s[i] \in Whitespace

----------------------------------------------------------------------------
(* The bus records *)

\* byte codes of the characters that occur in identifiers
AsciiChars == [b \in {32, 49, 50, 117} |->
                 CASE b = 32 -> " " [] b = 49 -> "1" [] b = 50 -> "2" [] OTHER -> "u"]

\* the values a record of the topic may carry: no value, empty, blank,
\* two identifiers, and bytes that are no UTF-8
NoValue == <<0>>
RawValues == {NoValue, <<>>, <<32>>, <<117, 49>>, <<117, 50>>, <<117, 255>>}

\* bytes.decode('utf-8') succeeds
Utf8Valid(m) == \A i \in 1..Len(m) : m[i] \in DOMAIN AsciiChars

\* bytes.decode('utf-8')
Utf8Decode(m) == [i \in 1..Len(m) |-> AsciiChars[m[i]]]

\* value_deserializer: lambda m: m.decode('utf-8') if m else None
DeserializerRaises(m) == m # NoValue /\ m # <<>> /\ ~Utf8Valid(m)
value_deserializer(m) ==
    IF m = NoValue \/ m = <<>> THEN NONE ELSE Str(Utf8Decode(m))

\* a test that lets whitespace through
SkipValueNoStrip(v) == v.t # "str"

\* not isinstance(v, str) or not v.strip()
SkipValue(v) == v.t # "str" \/ StripsToEmpty(v.v)

----------------------------------------------------------------------------
(* The identity service *)

\* the settings fetch_user_from_authserver reads: each set or empty
Configs ==
    {c \in [client_id : BOOLEAN, client_secret : BOOLEAN,
            token_endpoint : BOOLEAN, scope : BOOLEAN] :
        Cardinality({k \in {"client_id", "client_secret", "token_endpoint", "scope"} : ~c[k]}) <= 1}

\* a guard that forgets the token endpoint
ConfigCompleteNoEndpoint(c) == c.client_id /\ c.client_secret

\* all([OPENWEBUI_CLIENT_ID, OPENWEBUI_CLIENT_SECRET, AUTHSERVER_TOKEN_ENDPOINT])
ConfigComplete(c) == c.client_id /\ c.client_secret /\ c.token_endpoint

EmailValues ==
    {ABSENT, Str(<<>>), Str(<<"A", "@", "x">>), Str(<<"a", "@", "x">>),
     Str(<<"b", "@", "x">>), Num(<<"7">>)}
RolesValues ==
    {ABSENT, Num(<<"7">>), Str(<<"s", "u", "b", "A", "d", "m", "i", "n">>), Str(<<"u", "s", "e", "r">>),
     List(<<>>), List(<<Str(<<"u", "s", "e", "r">>), Num(<<"7">>)>>),
     List(<<Str(<<"u", "s", "e", "r">>), Str(<<"A", "D", "M", "I", "N", "_", "R">>)>>)}
EnabledValues == {ABSENT, Bool(TRUE), Bool(FALSE)}
UuidValues == {ABSENT, Str(<<"u", "1">>), Str(<<"u", "2">>)}
NameValues == {ABSENT, NONE, Str(<<"N">>)}
ImageValues == {ABSENT, NONE, Str(<<"/", "p">>)}

\* the JSON objects the users endpoint may answer with
Profiles ==
    [email : EmailValues, roles : RolesValues, enabled : EnabledValues,
     uuid : UuidValues, name : NameValues, profileImageUrl : ImageValues]

ProfileKeys == {"email", "roles", "enabled", "uuid", "name", "profileImageUrl"}

Dict(d) == [t |-> "dict", v |-> d]

\* a JSON body that is no object
NonDictBodies == {NONE, List(<<Num(<<"7">>)>>)}

\* bool(x) of what resp.json() returned
BodyTruthy(x) ==
    IF x.t = "dict" THEN \E k \in ProfileKeys : x.v[k] # ABSENT ELSE Truthy(x)

\* dict.get(key, default)
Get(d, key, default) == IF d[key] = ABSENT THEN default ELSE d[key]

\* what the GET of line 70 may meet
Responses == {"200", "404", "500", "request_error", "bad_json"}

----------------------------------------------------------------------------
(* Lines 125-149 of the loop body *)

ADMIN == <<"A", "D", "M", "I", "N">>

\* a role derivation that compares without upper-casing
open_webui_role_case_sensitive(authserver_roles_raw) ==
    IF authserver_roles_raw.t = "str"
    THEN IF Contains(authserver_roles_raw.v, ADMIN) THEN "admin" ELSE "user"
    ELSE IF authserver_roles_raw.t = "list"
         THEN IF \E i \in 1..Len(authserver_roles_raw.v) :
                    Contains(PyStr(authserver_roles_raw.v[i]), ADMIN)
              THEN "admin" ELSE "user"
         ELSE "user"

\* lines 132-139
open_webui_role(authserver_roles_raw) ==
    IF authserver_roles_raw.t = "str"
    THEN IF Contains(PyUpper(authserver_roles_raw.v), ADMIN) THEN "admin" ELSE "user"
    ELSE IF authserver_roles_raw.t = "list"
         THEN IF \E i \in 1..Len(authserver_roles_raw.v) :
                    Contains(PyUpper(PyStr(authserver_roles_raw.v[i])), ADMIN)
              THEN "admin" ELSE "user"
         ELSE "user"

DefaultImage == Str(<<"/", "u", "s", "e", "r", ".", "p", "n", "g">>)

\* line 130
profile_image_url_to_save(auth_profile_url) ==
    IF auth_profile_url # NONE THEN auth_profile_url ELSE DefaultImage

\* locals that take the oauth_sub from the message whatever the profile says
LocalsSubFromMessage(d, v) ==
    [email |-> Get(d, "email", NONE),
     name |-> Get(d, "name", v),
     profile_image_url |-> profile_image_url_to_save(Get(d, "profileImageUrl", NONE)),
     role |-> open_webui_role(Get(d, "roles", NONE)),
     oauth_sub |-> v,
     is_enabled |-> Get(d, "enabled", Bool(TRUE))]

\* lines 125-142: the locals computed from the profile d for message value v
Locals(d, v) ==
    [email |-> Get(d, "email", NONE),
     name |-> Get(d, "name", v),
     profile_image_url |-> profile_image_url_to_save(Get(d, "profileImageUrl", NONE)),
     role |-> open_webui_role(Get(d, "roles", NONE)),
     oauth_sub |-> Get(d, "uuid", v),
     is_enabled |-> Get(d, "enabled", Bool(TRUE))]

NoLocals == [email |-> NONE, name |-> NONE, profile_image_url |-> NONE,
             role |-> "user", oauth_sub |-> NONE, is_enabled |-> NONE]

\* the checks with the one on is_enabled left out
PolicySkipWithoutEnabled(l) ==
    IF ~Truthy(l.email) THEN "skip_missing_email" ELSE "none"

\* the checks with the email looked at first
PolicySkipEmailFirst(l) ==
    IF ~Truthy(l.email) THEN "skip_missing_email"
    ELSE IF ~Truthy(l.is_enabled) THEN "skip_disabled"
    ELSE "none"

\* lines 143-149: the skips decided before the store is read
PolicySkip(l) ==
    IF ~Truthy(l.is_enabled) THEN "skip_disabled"
    ELSE IF ~Truthy(l.email) THEN "skip_missing_email"
    ELSE "none"

----------------------------------------------------------------------------
(* The account store *)

\* Users.get_user_by_oauth_sub(sub) finds a row
get_user_by_oauth_sub(sub) == \E r \in store : r.oauth_sub = sub

\* Users.get_user_by_email(email) finds a row
get_user_by_email(email) == \E r \in store : r.email = email

\* the row Auths.insert_new_auth adds
NewRow(args) ==
    [id |-> Cardinality(store) + 1, oauth_sub |-> args.oauth_sub, email |-> args.email]

\* the ledger after an insert call with arguments a
Booked(a, ok) ==
    IF \E e \in ledger : e.oauth_sub = a.oauth_sub /\ e.email = a.email
    THEN {IF e.oauth_sub = a.oauth_sub /\ e.email = a.email
          THEN [e EXCEPT !.calls = @ + 1] ELSE e : e \in ledger}
    ELSE IF ok
         THEN ledger \cup {[oauth_sub |-> a.oauth_sub, email |-> a.email, calls |-> 1]}
         ELSE ledger

NoCalls == [token |-> 0, get |-> 0, by_sub |-> 0, by_email |-> 0, insert |-> 0]
NoInsert == [email |-> NONE, name |-> NONE, profile_image_url |-> NONE,
             role |-> "none", oauth_sub |-> NONE]

\* what may go wrong in the store while line 151 runs
LookupFaults == {"none", "by_sub", "by_email"}

\* a check that never finds anybody
DedupCheckNothing(l, fault) ==
    IF fault = "by_sub" THEN [end |-> "error_lookup", by_email |-> 0]
    ELSE IF l.email.t # "str" THEN [end |-> "error_attribute", by_email |-> 0]
    ELSE IF fault = "by_email" THEN [end |-> "error_lookup", by_email |-> 1]
    ELSE [end |-> "none", by_email |-> 1]

\* a check by oauth_sub alone
DedupCheckSubOnly(l, fault) ==
    IF fault = "by_sub" THEN [end |-> "error_lookup", by_email |-> 0]
    ELSE IF get_user_by_oauth_sub(l.oauth_sub)
    THEN [end |-> "skip_duplicate", by_email |-> 0]
    ELSE IF l.email.t # "str" THEN [end |-> "error_attribute", by_email |-> 0]
    ELSE [end |-> "none", by_email |-> 0]

\* line 151: get_user_by_oauth_sub(oauth_sub) or get_user_by_email(email.lower()),
\* the second call made only when the first finds nothing
DedupCheck(l, fault) ==
    IF fault = "by_sub" THEN [end |-> "error_lookup", by_email |-> 0]
    ELSE IF get_user_by_oauth_sub(l.oauth_sub)
    THEN [end |-> "skip_duplicate", by_email |-> 0]
    ELSE IF l.email.t # "str" THEN [end |-> "error_attribute", by_email |-> 0]
    ELSE IF fault = "by_email" THEN [end |-> "error_lookup", by_email |-> 1]
    ELSE IF get_user_by_email(Str(PyLower(l.email.v)))
    THEN [end |-> "skip_duplicate", by_email |-> 1]
    ELSE [end |-> "none", by_email |-> 1]

\* the arguments with the email as the identity service spelled it
InsertArgsEmailAsIs ==
    [email |-> loc.email,
     name |-> loc.name,
     profile_image_url |-> loc.profile_image_url,
     role |-> loc.role,
     oauth_sub |-> loc.oauth_sub]

\* lines 157-164: the arguments of insert_new_auth, the password aside
InsertArgs ==
    [email |-> Str(PyLower(loc.email.v)),
     name |-> loc.name,
     profile_image_url |-> loc.profile_image_url,
     role |-> loc.role,
     oauth_sub |-> loc.oauth_sub]

\* what insert_new_auth may do: return the user, return None, raise
InsertResults == {"user", "None", "raise"}

----------------------------------------------------------------------------
(* consume_user_created_events *)

\* fetch_user_from_authserver is not being looked at on its own
UrlIdle == user_uuid = <<>> /\ url = <<>>

\* no speech-to-text handler is called
SttIdle ==
    /\ handler = "none"
    /\ spc = "idle"
    /\ audio_format = "unset"
    /\ files = {}
    /\ cleanup_file = "None"
    /\ sent = 0
    /\ pending = "none"
    /\ remove_failed = FALSE

\* poll_for_transcription_results is not called
PollIdle ==
    /\ ppc = "idle"
    /\ elapsed = 0
    /\ polls = 0
    /\ job_status = "none"
    /\ presult = "none"

\* handle_local_stt is not called
LocalIdle ==
    /\ lpc = "idle"
    /\ whisper = "unset"
    /\ model = FALSE
    /\ auto_update = FALSE
    /\ attempts = <<>>
    /\ set_result = "none"
    /\ calls = 0

Init ==
    /\ pc = "Disconnected"
    /\ cfg \in Configs
    /\ consumer = "none"
    /\ connects = 0
    /\ stops = 0
    /\ delivered = 0
    /\ raw = NoValue
    /\ msg = NONE
    /\ resp = "none"
    /\ user_data = NONE
    /\ loc = NoLocals
    /\ store = {}
    /\ before = {}
    /\ ledger = {}
    /\ cnt = NoCalls
    /\ lastInsert = NoInsert
    /\ outcome = "none"
    /\ raised = "none"
    /\ UrlIdle
    /\ SttIdle
    /\ PollIdle
    /\ LocalIdle

\* lines 93-105: the consumer is built and started
ConsumerStart ==
    /\ pc = "Disconnected"
    /\ pc' = "Consuming"
    /\ consumer' = "started"
    /\ connects' = connects + 1
    /\ UNCHANGED <<cfg, stops, delivered, raw, msg, resp, user_data, loc, store,
                   before, ledger, cnt, lastInsert, outcome, raised>>
    /\ UNCHANGED elsewhere

\* a failed start after which the function goes on to the loop
ConsumerStartFailsGoesOn ==
    /\ pc = "Disconnected"
    /\ \E at \in {"none", "created"} : consumer' = at
    /\ connects' = connects + 1
    /\ pc' = "Consuming"
    /\ UNCHANGED <<cfg, stops, delivered, raw, msg, resp, user_data, loc, store,
                   before, ledger, cnt, lastInsert, outcome, raised>>
    /\ UNCHANGED elsewhere

\* lines 93-108: AIOKafkaConsumer(...) raises (no consumer) or
\* consumer.start() raises (a consumer that never started); log and return
ConsumerStartFails ==
    /\ pc = "Disconnected"
    /\ \E at \in {"none", "created"} : consumer' = at
    /\ connects' = connects + 1
    /\ pc' = "Returned"
    /\ UNCHANGED <<cfg, stops, delivered, raw, msg, resp, user_data, loc, store,
                   before, ledger, cnt, lastInsert, outcome, raised>>
    /\ UNCHANGED elsewhere

IsError(how) == how \in {"error_attribute", "error_lookup", "error_insert"}

\* a boundary that lets what it caught end the loop
EndMessageLeavesLoop(how) ==
    /\ pc' = IF IsError(how) THEN "Stopping" ELSE "Consuming"
    /\ outcome' = how

\* the per-message boundary: a continue (lines 117, 123, 145, 149, 153), the
\* end of the body (line 169) or the except of lines 171-172; all lead to
\* the next iteration
EndMessage(how) ==
    /\ pc' = "Consuming"
    /\ outcome' = how

\* line 111 when the deserializer of line 98 raises inside the iterator: the
\* exception leaves the async for, outside the try of line 113
DeserializerError(m) ==
    /\ DeserializerRaises(m)
    /\ pc' = "Stopping"
    /\ raised' = "UnicodeDecodeError"
    /\ outcome' = "none"
    /\ resp' = "none"
    /\ cnt' = NoCalls
    /\ lastInsert' = NoInsert
    /\ UNCHANGED <<msg, user_data, loc>>

\* lines 111-117: a message whose value is skipped
SkipMessage(m) ==
    /\ ~DeserializerRaises(m)
    /\ SkipValue(value_deserializer(m))
    /\ msg' = value_deserializer(m)
    /\ EndMessage("skip_blank")
    /\ resp' = "none"
    /\ user_data' = NONE
    /\ loc' = NoLocals
    /\ cnt' = NoCalls
    /\ lastInsert' = NoInsert
    /\ UNCHANGED raised

\* a resolver that keeps the token of the record before
EnterResolverReusesToken(m) ==
    /\ ~DeserializerRaises(m)
    /\ ~SkipValue(value_deserializer(m))
    /\ msg' = value_deserializer(m)
    /\ pc' = IF ~ConfigComplete(cfg) THEN "Resolved"
             ELSE IF cnt.get >= 1 THEN "Get" ELSE "Token"
    /\ outcome' = "none"
    /\ resp' = IF ConfigComplete(cfg) THEN "none" ELSE "not_configured"
    /\ user_data' = NONE
    /\ loc' = NoLocals
    /\ cnt' = NoCalls
    /\ lastInsert' = NoInsert
    /\ UNCHANGED raised

\* lines 111-119 and 43-59: the resolver is entered
EnterResolver(m) ==
    /\ ~DeserializerRaises(m)
    /\ ~SkipValue(value_deserializer(m))
    /\ msg' = value_deserializer(m)
    /\ pc' = IF ConfigComplete(cfg) THEN "Token" ELSE "Resolved"
    /\ outcome' = "none"
    /\ resp' = IF ConfigComplete(cfg) THEN "none" ELSE "not_configured"
    /\ user_data' = NONE
    /\ loc' = NoLocals
    /\ cnt' = NoCalls
    /\ lastInsert' = NoInsert
    /\ UNCHANGED raised

\* an iterator that yields the next record while the resolver still awaits
ReceiveWhileBusy ==
    /\ pc \in {"Consuming", "Token", "Get"}
    /\ delivered < MaxMsgs
    /\ \E m \in RawValues :
        /\ raw' = m
        /\ delivered' = delivered + 1
        /\ before' = store
        /\ \/ DeserializerError(m)
           \/ SkipMessage(m)
           \/ EnterResolver(m)
    /\ UNCHANGED <<cfg, consumer, connects, stops, store, ledger>>
    /\ UNCHANGED elsewhere

\* line 111: the iterator yields the next record
Receive ==
    /\ pc = "Consuming"
    /\ delivered < MaxMsgs
    /\ \E m \in RawValues :
        /\ raw' = m
        /\ delivered' = delivered + 1
        /\ before' = store
        /\ \/ DeserializerError(m)
           \/ SkipMessage(m)
           \/ EnterResolver(m)
    /\ UNCHANGED <<cfg, consumer, connects, stops, store, ledger>>
    /\ UNCHANGED elsewhere

\* a resolver that goes on to the profile request without a token
FetchTokenGoesOn ==
    /\ pc = "Token"
    /\ cnt' = [cnt EXCEPT !.token = @ + 1]
    /\ \E ok \in BOOLEAN :
        /\ resp' = IF ok THEN "token" ELSE "token_error"
        /\ pc' = "Get"
    /\ UNCHANGED <<cfg, consumer, connects, stops, delivered, raw, msg, user_data,
                   loc, store, before, ledger, lastInsert, outcome, raised>>
    /\ UNCHANGED elsewhere

\* a resolver that asks for the token a second time when the first failed
FetchTokenRetries ==
    /\ pc = "Token"
    /\ cnt' = [cnt EXCEPT !.token = @ + 1]
    /\ \E ok \in BOOLEAN :
        /\ resp' = IF ok THEN "token" ELSE "token_error"
        /\ pc' = IF ok THEN "Get" ELSE IF cnt.token = 0 THEN "Token" ELSE "Resolved"
    /\ UNCHANGED <<cfg, consumer, connects, stops, delivered, raw, msg, user_data,
                   loc, store, before, ledger, lastInsert, outcome, raised>>
    /\ UNCHANGED elsewhere

\* lines 61-66: await client.fetch_token(); a failure returns None
FetchToken ==
    /\ pc = "Token"
    /\ cnt' = [cnt EXCEPT !.token = @ + 1]
    /\ \E ok \in BOOLEAN :
        /\ resp' = IF ok THEN "token" ELSE "token_error"
        /\ pc' = IF ok THEN "Get" ELSE "Resolved"
    /\ UNCHANGED <<cfg, consumer, connects, stops, delivered, raw, msg, user_data,
                   loc, store, before, ledger, lastInsert, outcome, raised>>
    /\ UNCHANGED elsewhere

\* a resolver that returns the body whatever the status
ResolvedWhateverStatus(r, body) == IF r \in {"200", "404", "500"} THEN body ELSE NONE

\* a resolver that treats only 404 and transport failures as failures
ResolvedOnlyNotFound(r, body) == IF r \in {"200", "500"} THEN body ELSE NONE

\* lines 70-88: what fetch_user_from_authserver returns for an answer:
\* the body of a 2xx, None after raise_for_status() or resp.json() raised
Resolved(r, body) == IF r = "200" THEN body ELSE NONE

\* lines 70-88: await client.get(url), raise_for_status(), resp.json()
GetUser ==
    /\ pc = "Get"
    /\ cnt' = [cnt EXCEPT !.get = @ + 1]
    /\ \E r \in Responses :
        /\ resp' = r
        /\ \E body \in {Dict(p) : p \in Profiles} \cup NonDictBodies :
            user_data' = Resolved(r, body)
    /\ pc' = "Resolved"
    /\ UNCHANGED <<cfg, consumer, connects, stops, delivered, raw, msg, loc, store,
                   before, ledger, lastInsert, outcome, raised>>
    /\ UNCHANGED elsewhere

\* a loop body that inserts without looking the user up
DecideInsertsUnchecked ==
    /\ pc = "Resolved"
    /\ IF ~BodyTruthy(user_data)
       THEN EndMessage("skip_unresolved") /\ UNCHANGED loc
       ELSE IF user_data.t # "dict"
       THEN EndMessage("error_attribute") /\ UNCHANGED loc
       ELSE /\ loc' = Locals(user_data.v, msg)
            /\ IF PolicySkip(loc') # "none"
               THEN EndMessage(PolicySkip(loc'))
               ELSE pc' = "Insert" /\ UNCHANGED outcome
    /\ UNCHANGED <<cfg, consumer, connects, stops, delivered, raw, msg, resp,
                   user_data, store, before, ledger, cnt, lastInsert, raised>>
    /\ UNCHANGED elsewhere

\* lines 121-149: the checks before the store is read
Decide ==
    /\ pc = "Resolved"
    /\ IF ~BodyTruthy(user_data)
       THEN EndMessage("skip_unresolved") /\ UNCHANGED loc
       ELSE IF user_data.t # "dict"
       THEN EndMessage("error_attribute") /\ UNCHANGED loc
       ELSE /\ loc' = Locals(user_data.v, msg)
            /\ IF PolicySkip(loc') # "none"
               THEN EndMessage(PolicySkip(loc'))
               ELSE pc' = "Lookup" /\ UNCHANGED outcome
    /\ UNCHANGED <<cfg, consumer, connects, stops, delivered, raw, msg, resp,
                   user_data, store, before, ledger, cnt, lastInsert, raised>>
    /\ UNCHANGED elsewhere

\* lines 151-155: the two lookups
Lookup ==
    /\ pc = "Lookup"
    /\ \E fault \in LookupFaults :
        LET r == DedupCheck(loc, fault) IN
        /\ cnt' = [cnt EXCEPT !.by_sub = @ + 1, !.by_email = @ + r.by_email]
        /\ IF r.end = "none"
           THEN pc' = "Insert" /\ UNCHANGED outcome
           ELSE EndMessage(r.end)
    /\ UNCHANGED <<cfg, consumer, connects, stops, delivered, raw, msg, resp,
                   user_data, loc, store, before, ledger, lastInsert, raised>>
    /\ UNCHANGED elsewhere

\* an insert that is tried again when it returned None
InsertRetries ==
    /\ pc = "Insert"
    /\ cnt' = [cnt EXCEPT !.insert = @ + 1]
    /\ lastInsert' = InsertArgs
    /\ \E result \in InsertResults :
        /\ store' = IF result = "user" THEN store \cup {NewRow(InsertArgs)} ELSE store
        /\ ledger' = Booked(InsertArgs, result = "user")
        /\ IF result = "None" /\ cnt.insert = 0
           THEN UNCHANGED <<pc, outcome>>
           ELSE EndMessage(CASE result = "user" -> "provisioned"
                             [] result = "None" -> "insert_failed"
                             [] OTHER -> "error_insert")
    /\ UNCHANGED <<cfg, consumer, connects, stops, delivered, raw, msg, resp,
                   user_data, loc, before, raised>>
    /\ UNCHANGED elsewhere

\* lines 157-169: Auths.insert_new_auth returns a user, returns None or raises
Insert ==
    /\ pc = "Insert"
    /\ cnt' = [cnt EXCEPT !.insert = @ + 1]
    /\ lastInsert' = InsertArgs
    /\ \E result \in InsertResults :
        /\ store' = IF result = "user" THEN store \cup {NewRow(InsertArgs)} ELSE store
        /\ ledger' = Booked(InsertArgs, result = "user")
        /\ EndMessage(CASE result = "user" -> "provisioned"
                        [] result = "None" -> "insert_failed"
                        [] OTHER -> "error_insert")
    /\ UNCHANGED <<cfg, consumer, connects, stops, delivered, raw, msg, resp,
                   user_data, loc, before, raised>>
    /\ UNCHANGED elsewhere

\* line 111: the iterator ends (the consumer was stopped)
IterationEnds ==
    /\ pc = "Consuming"
    /\ pc' = "Stopping"
    /\ UNCHANGED <<cfg, consumer, connects, stops, delivered, raw, msg, resp,
                   user_data, loc, store, before, ledger, cnt, lastInsert, outcome,
                   raised>>
    /\ UNCHANGED elsewhere

\* a cancellation that leaves the function past the finally clause
CancelledSkipsFinally ==
    /\ pc \in {"Consuming", "Token", "Get"}
    /\ pc' = "Raised"
    /\ raised' = "CancelledError"
    /\ UNCHANGED <<cfg, consumer, connects, stops, delivered, raw, msg, resp,
                   user_data, loc, store, before, ledger, cnt, lastInsert, outcome>>
    /\ UNCHANGED elsewhere

\* the task is cancelled while it awaits (lines 111, 62, 70): CancelledError
\* is no Exception, so neither line 64, 86 nor 171 catches it
Cancelled ==
    /\ pc \in {"Consuming", "Token", "Get"}
    /\ pc' = "Stopping"
    /\ raised' = "CancelledError"
    /\ UNCHANGED <<cfg, consumer, connects, stops, delivered, raw, msg, resp,
                   user_data, loc, store, before, ledger, cnt, lastInsert, outcome>>
    /\ UNCHANGED elsewhere

\* lines 173-177: the finally clause
ConsumerStop ==
    /\ pc = "Stopping"
    /\ consumer' = "stopped"
    /\ stops' = stops + 1
    /\ pc' = IF raised = "none" THEN "Returned" ELSE "Raised"
    /\ UNCHANGED <<cfg, connects, delivered, raw, msg, resp, user_data, loc, store,
                   before, ledger, cnt, lastInsert, outcome, raised>>
    /\ UNCHANGED elsewhere

Next ==
    \/ ConsumerStart
    \/ ConsumerStartFails
    \/ Receive
    \/ FetchToken
    \/ GetUser
    \/ Decide
    \/ Lookup
    \/ Insert
    \/ IterationEnds
    \/ Cancelled
    \/ ConsumerStop

Spec == Init /\ [][Next]_vars

\* the rows other writers add: the accounts of two users
ExternalRows ==
    {[id |-> 0, oauth_sub |-> Str(<<"u", "1">>), email |-> Str(<<"a", "@", "x">>)],
     [id |-> 0, oauth_sub |-> Str(<<"u", "2">>), email |-> Str(<<"b", "@", "x">>)]}

\* another writer of the same store (a second consumer process of the group
\* at its own line 157, or any other client of the Auths table) adds a row
\* while this consumer is at line 151 or between line 151 and line 157
ExternalWrite ==
    /\ pc \in {"Lookup", "Insert"}
    /\ Cardinality({r \in store : r.id = 0}) < MaxExternal
    /\ \E row \in ExternalRows : store' = store \cup {row}
    /\ UNCHANGED <<pc, cfg, consumer, connects, stops, delivered, raw, msg, resp,
                   user_data, loc, before, ledger, cnt, lastInsert, outcome, raised>>
    /\ UNCHANGED elsewhere

NextShared ==
    \/ Next
    \/ ExternalWrite

\* the consumer beside other writers of the store
SpecShared == Init /\ [][NextShared]_vars

----------------------------------------------------------------------------
(* fetch_user_from_authserver: the address of the profile request *)

\* the longest identifier tried
MaxIdLen == 3

\* line 24, with the default's host and port shortened to "h"
AUTHSERVER_API_BASE_URL ==
    <<"h", "t", "t", "p", ":", "/", "/", "h", "/", "a", "p", "i">>

\* line 30
AUTHSERVER_USER_ENDPOINT_TEMPLATE == <<"/", "u", "s", "e", "r", "s", "/", "{", "}">>

\* str.rstrip('/')
RECURSIVE RStripSlash(_)
RStripSlash(s) ==
    IF s # <<>> /\ s[Len(s)] = "/" THEN RStripSlash(SubSeq(s, 1, Len(s) - 1)) ELSE s

\* template.format(arg) from position i on: the field {} takes the argument
\* as it is, every other character stands for itself
RECURSIVE FormatFrom(_, _, _)
FormatFrom(template, i, arg) ==
    IF i > Len(template) THEN <<>>
    ELSE IF template[i] = "{" /\ i < Len(template) /\ template[i + 1] = "}"
    THEN arg \o FormatFrom(template, i + 2, arg)
    ELSE <<template[i]>> \o FormatFrom(template, i + 1, arg)

\* lines 47-48: f"{AUTHSERVER_API_BASE_URL.rstrip('/')}{template.format(user_uuid)}"
\* with the path of the identifier left as it came
UserInfoUrl(id) ==
    RStripSlash(AUTHSERVER_API_BASE_URL) \o FormatFrom(AUTHSERVER_USER_ENDPOINT_TEMPLATE, 1, id)

\* the characters an identifier is made of here
IdChars == {"u", "/", "?", "#", ".", "{", "}"}

\* the message values that reach line 119: non-blank strings
Ids == UNION {[1..n -> IdChars] : n \in 1..MaxIdLen}

\* the consumer is not running
ConsumerIdle ==
    /\ pc = "Disconnected"
    /\ cfg = [client_id |-> TRUE, client_secret |-> TRUE,
              token_endpoint |-> TRUE, scope |-> TRUE]
    /\ consumer = "none"
    /\ connects = 0
    /\ stops = 0
    /\ delivered = 0
    /\ raw = NoValue
    /\ msg = NONE
    /\ resp = "none"
    /\ user_data = NONE
    /\ loc = NoLocals
    /\ store = {}
    /\ before = {}
    /\ ledger = {}
    /\ cnt = NoCalls
    /\ lastInsert = NoInsert
    /\ outcome = "none"
    /\ raised = "none"

\* line 40: the function is called with an identifier
InitUrl ==
    /\ ConsumerIdle
    /\ SttIdle
    /\ PollIdle
    /\ LocalIdle
    /\ user_uuid \in Ids
    /\ url = <<>>

\* lines 47-48
BuildUrl ==
    /\ url = <<>>
    /\ url' = UserInfoUrl(user_uuid)
    /\ UNCHANGED <<user_uuid, consumer_vars, stt_vars, poll_vars, local_vars>>

NextUrl == BuildUrl

SpecUrl == InitUrl /\ [][NextUrl]_vars

----------------------------------------------------------------------------
(* handle_openai_stt and handle_azure_stt *)

\* what get_audio_format returns (audio_utils.py lines 19-47)
AudioFormats == {"mp4", "ogg", "webm", "wav", "None", "error"}

\* openai_handler.py line 23, azure_handler.py line 138: the formats converted
NeedsConversion(h, format) ==
    IF h = "openai" THEN format \in {"mp4", "ogg", "None"}
    ELSE format # "wav" /\ format # "error"

\* an address of the audio in blob storage
audio_file_url_given == "blob"

\* azure_handler.py line 168
audio_file_url == "None"

\* the handler is called; the audio file is there or not
InitStt ==
    /\ ConsumerIdle
    /\ UrlIdle
    /\ PollIdle
    /\ LocalIdle
    /\ handler \in {"openai", "azure"}
    /\ spc = "entry"
    /\ audio_format = "unset"
    /\ files \in {{"original"}, {}}
    /\ cleanup_file = "None"
    /\ sent = 0
    /\ pending = "none"
    /\ remove_failed = FALSE

\* azure_handler.py lines 100-119: the file, its size, the key and the region
AzureChecks ==
    /\ handler = "azure"
    /\ spc = "entry"
    /\ \E small \in BOOLEAN, credentials \in BOOLEAN :
        spc' = IF "original" \in files /\ small /\ credentials
               THEN "checked" ELSE "raised"
    /\ UNCHANGED <<handler, audio_format, files, cleanup_file, sent, pending,
                   remove_failed>>
    /\ UNCHANGED <<consumer_vars, url_vars, poll_vars, local_vars>>

\* openai_handler.py line 20, azure_handler.py line 133: a missing file gives
\* "error", as does a failure of mediainfo
GetAudioFormat ==
    /\ \/ handler = "openai" /\ spc = "entry"
       \/ handler = "azure" /\ spc = "checked"
    /\ audio_format' \in IF "original" \in files THEN AudioFormats ELSE {"error"}
    /\ spc' = "convert"
    /\ UNCHANGED <<handler, files, cleanup_file, sent, pending, remove_failed>>
    /\ UNCHANGED <<consumer_vars, url_vars, poll_vars, local_vars>>

\* openai_handler.py lines 23-44, azure_handler.py lines 138-153: the file
\* is converted, sent as it is, or the handler raises
Convert ==
    /\ spc = "convert"
    /\ IF audio_format = "error"
       THEN spc' = "raised" /\ UNCHANGED <<files, cleanup_file>>
       ELSE IF NeedsConversion(handler, audio_format)
       THEN \E converted \in BOOLEAN :
                IF converted
                THEN /\ files' = files \cup {"converted"}
                     /\ cleanup_file' = "converted"
                     /\ spc' = "request"
                ELSE spc' = "raised" /\ UNCHANGED <<files, cleanup_file>>
       ELSE spc' = "request" /\ UNCHANGED <<files, cleanup_file>>
    /\ UNCHANGED <<handler, audio_format, sent, pending, remove_failed>>
    /\ UNCHANGED <<consumer_vars, url_vars, poll_vars, local_vars>>

\* how the try block of handle_openai_stt may go (lines 47-91): the file
\* cannot be opened, the request fails or is answered with an error status,
\* the answer is no JSON, or the answer is the transcription
OpenAiOutcomes == {"open_error", "request_error", "bad_json", "ok"}

\* how the try block of handle_azure_stt may go past line 170 (lines 172-220)
AzureOutcomes == {"request_error", "no_location", "poll_error", "timeout", "ok"}

\* openai_handler.py lines 46-91, azure_handler.py lines 155-247: the try
\* block; with the transcription at hand the transcript file is written,
\* unless writing it fails
Request ==
    /\ spc = "request"
    /\ IF handler = "azure" /\ audio_file_url = "None"
       THEN /\ pending' = "raise"
            /\ UNCHANGED <<sent, files>>
       ELSE \E how \in IF handler = "openai" THEN OpenAiOutcomes ELSE AzureOutcomes :
            \E saved \in BOOLEAN :
                /\ sent' = IF how = "open_error" THEN sent ELSE sent + 1
                /\ pending' = IF how = "ok" THEN "return" ELSE "raise"
                /\ files' = IF how = "ok" /\ saved
                            THEN files \cup {"transcript"} ELSE files
    /\ spc' = "finally"
    /\ UNCHANGED <<handler, audio_format, cleanup_file, remove_failed>>
    /\ UNCHANGED <<consumer_vars, url_vars, poll_vars, local_vars>>

\* a finally clause that cleans up only when the request succeeded
FinallyOnlyOnReturn ==
    /\ spc = "finally"
    /\ IF pending = "return" /\ cleanup_file # "None" /\ cleanup_file \in files
       THEN \E removed \in BOOLEAN :
                /\ files' = IF removed THEN files \ {cleanup_file} ELSE files
                /\ remove_failed' = ~removed
       ELSE UNCHANGED <<files, remove_failed>>
    /\ spc' = IF pending = "return" THEN "returned" ELSE "raised"
    /\ UNCHANGED <<handler, audio_format, cleanup_file, sent, pending>>
    /\ UNCHANGED <<consumer_vars, url_vars, poll_vars, local_vars>>

\* openai_handler.py lines 93-100, azure_handler.py lines 248-255: the
\* finally clause; os.remove may raise, which is logged
Finally ==
    /\ spc = "finally"
    /\ IF cleanup_file # "None" /\ cleanup_file \in files
       THEN \E removed \in BOOLEAN :
                /\ files' = IF removed THEN files \ {cleanup_file} ELSE files
                /\ remove_failed' = ~removed
       ELSE UNCHANGED <<files, remove_failed>>
    /\ spc' = IF pending = "return" THEN "returned" ELSE "raised"
    /\ UNCHANGED <<handler, audio_format, cleanup_file, sent, pending>>
    /\ UNCHANGED <<consumer_vars, url_vars, poll_vars, local_vars>>

NextStt ==
    \/ AzureChecks
    \/ GetAudioFormat
    \/ Convert
    \/ Request
    \/ Finally

SpecStt == InitStt /\ [][NextStt]_vars

----------------------------------------------------------------------------
(* poll_for_transcription_results *)

\* the longest a status request takes, in seconds
MaxDelay == 1

AZURE_POLLING_INTERVAL_SECONDS == 5
AZURE_POLLING_TIMEOUT_SECONDS == 300

\* the "status" member of the answers of the job: as Azure spells it, in
\* lower case, a status the function does not know, absent, or null
Answers ==
    {"Succeeded", "Failed", "Canceled", "NotStarted", "Running", "running",
     "Paused", "ABSENT", "NULL"}

\* str.lower() of line 36
Lower(s) ==
    CASE s = "Succeeded" -> "succeeded"
      [] s = "Failed" -> "failed"
      [] s = "Canceled" -> "canceled"
      [] s = "NotStarted" -> "notstarted"
      [] s = "Running" -> "running"
      [] s = "Paused" -> "paused"
      [] OTHER -> s

\* line 23: the function is entered
InitPoll ==
    /\ ConsumerIdle
    /\ UrlIdle
    /\ SttIdle
    /\ LocalIdle
    /\ ppc = "top"
    /\ elapsed = 0
    /\ polls = 0
    /\ job_status = "none"
    /\ presult = "none"

\* lines 25-37: the check of the elapsed time, then the status request; an
\* error status of the answer and a null "status" raise
GetStatus ==
    /\ ppc = "top"
    /\ IF elapsed > AZURE_POLLING_TIMEOUT_SECONDS
       THEN /\ ppc' = "ended"
            /\ presult' = "timeout"
            /\ UNCHANGED <<elapsed, polls, job_status>>
       ELSE \E d \in 0..MaxDelay, failed \in BOOLEAN, answer \in Answers :
            /\ elapsed' = elapsed + d
            /\ polls' = polls + 1
            /\ IF failed \/ answer = "NULL"
               THEN /\ ppc' = "ended"
                    /\ presult' = "error"
                    /\ UNCHANGED job_status
               ELSE /\ ppc' = "status"
                    /\ job_status' = IF answer = "ABSENT" THEN "" ELSE Lower(answer)
                    /\ UNCHANGED presult
    /\ UNCHANGED <<consumer_vars, url_vars, stt_vars, local_vars>>

\* a dispatch that goes on polling on a status it does not know
DispatchUnknownWaits ==
    /\ ppc = "status"
    /\ IF job_status = "succeeded"
       THEN /\ ppc' = "ended"
            /\ presult' \in {"result", "error"}
            /\ UNCHANGED elapsed
       ELSE IF job_status \in {"failed", "canceled"}
       THEN /\ ppc' = "ended"
            /\ presult' = "error"
            /\ UNCHANGED elapsed
       ELSE /\ ppc' = "top"
            /\ elapsed' = elapsed + AZURE_POLLING_INTERVAL_SECONDS
            /\ UNCHANGED presult
    /\ UNCHANGED <<polls, job_status>>
    /\ UNCHANGED <<consumer_vars, url_vars, stt_vars, local_vars>>

\* lines 39-93: what the status leads to
Dispatch ==
    /\ ppc = "status"
    /\ IF job_status = "succeeded"
       THEN /\ ppc' = "ended"
            /\ presult' \in {"result", "error"}
            /\ UNCHANGED elapsed
       ELSE IF job_status \in {"failed", "canceled"}
       THEN /\ ppc' = "ended"
            /\ presult' = "error"
            /\ UNCHANGED elapsed
       ELSE IF job_status = "notstarted" \/ job_status = "running"
       THEN /\ ppc' = "top"
            /\ elapsed' = elapsed + AZURE_POLLING_INTERVAL_SECONDS
            /\ UNCHANGED presult
       ELSE /\ ppc' = "ended"
            /\ presult' = "error"
            /\ UNCHANGED elapsed
    /\ UNCHANGED <<polls, job_status>>
    /\ UNCHANGED <<consumer_vars, url_vars, stt_vars, local_vars>>

NextPoll ==
    \/ GetStatus
    \/ Dispatch

SpecPoll == InitPoll /\ [][NextPoll]_vars

\* every statement of the loop is run in its turn
SpecPollFair == SpecPoll /\ WF_vars(NextPoll)

----------------------------------------------------------------------------
(* handle_local_stt and set_faster_whisper_model *)

\* the calls of handle_local_stt on one application state
MaxCalls == 3

\* one WhisperModel(...) call: its local_files_only and whether it returned
Attempt(local_files_only, ok) == [local_files_only |-> local_files_only, ok |-> ok]

\* audio_utils.py lines 63-97, given the model name is not empty (name),
\* auto_update, and whether the import and the two WhisperModel calls
\* succeed: the attempts made and the value returned
SetFasterWhisperModelKeepsFlag(name, update, imported, ok1, ok2) ==
    IF ~name \/ ~imported
    THEN [attempts |-> <<>>, result |-> "None"]
    ELSE IF ok1
    THEN [attempts |-> <<Attempt(~update, TRUE)>>, result |-> "model"]
    ELSE [attempts |-> <<Attempt(~update, FALSE), Attempt(~update, ok2)>>,
          result |-> IF ok2 THEN "model" ELSE "None"]

SetFasterWhisperModel(name, update, imported, ok1, ok2) ==
    IF ~name \/ ~imported
    THEN [attempts |-> <<>>, result |-> "None"]
    ELSE IF ok1
    THEN [attempts |-> <<Attempt(~update, TRUE)>>, result |-> "model"]
    ELSE [attempts |-> <<Attempt(~update, FALSE), Attempt(FALSE, ok2)>>,
          result |-> IF ok2 THEN "model" ELSE "None"]

\* local_handler.py line 17, with only the missing attribute looked at
HoldsNoModelUnsetOnly(w) == w = "unset"

\* local_handler.py line 17: no attribute faster_whisper_model, or None
HoldsNoModel(w) == w = "unset" \/ w = "None"

\* the application has started; the model may have been loaded already
InitLocal ==
    /\ ConsumerIdle
    /\ UrlIdle
    /\ SttIdle
    /\ PollIdle
    /\ lpc = "ready"
    /\ whisper \in {"unset", "None", "model"}
    /\ model \in BOOLEAN
    /\ auto_update \in BOOLEAN
    /\ attempts = <<>>
    /\ set_result = "none"
    /\ calls = 0

\* local_handler.py lines 12-17: a call, after the one before has ended
Call ==
    /\ lpc \in {"ready", "returned", "raised"}
    /\ calls < MaxCalls
    /\ calls' = calls + 1
    /\ attempts' = <<>>
    /\ set_result' = "none"
    /\ lpc' = IF HoldsNoModel(whisper) THEN "load" ELSE "transcribe"
    /\ UNCHANGED <<whisper, model, auto_update>>
    /\ UNCHANGED <<consumer_vars, url_vars, stt_vars, poll_vars>>

\* local_handler.py lines 18-27: the result of set_faster_whisper_model is
\* stored in the state; None raises
Load ==
    /\ lpc = "load"
    /\ \E imported \in BOOLEAN, ok1 \in BOOLEAN, ok2 \in BOOLEAN :
        LET r == SetFasterWhisperModel(model, auto_update, imported, ok1, ok2) IN
        /\ attempts' = r.attempts
        /\ set_result' = r.result
        /\ whisper' = r.result
        /\ lpc' = IF r.result = "None" THEN "raised" ELSE "transcribe"
    /\ UNCHANGED <<model, auto_update, calls>>
    /\ UNCHANGED <<consumer_vars, url_vars, stt_vars, poll_vars>>

\* local_handler.py lines 30-64: the transcription, returned or raised
Transcribe ==
    /\ lpc = "transcribe"
    /\ \E ok \in BOOLEAN : lpc' = IF ok THEN "returned" ELSE "raised"
    /\ UNCHANGED <<whisper, model, auto_update, attempts, set_result, calls>>
    /\ UNCHANGED <<consumer_vars, url_vars, stt_vars, poll_vars>>

NextLocal ==
    \/ Call
    \/ Load
    \/ Transcribe

SpecLocal == InitLocal /\ [][NextLocal]_vars

----------------------------------------------------------------------------
(* Vocabulary of the properties *)

\* the loop body and the resolver it calls
PipelinePcs == {"Token", "Get", "Resolved", "Lookup", "Insert"}

\* the function has been left
Terminated == pc \in {"Stopping", "Returned", "Raised"}

\* the message pulled last has reached its outcome
MessageDone == outcome # "none"

\* the resolver came back with a JSON object
HasProfile == user_data.t = "dict" /\ BodyTruthy(user_data)

ProfileEmail == Get(user_data.v, "email", NONE)
ProfileRoles == Get(user_data.v, "roles", NONE)
ProfileEnabled == Truthy(Get(user_data.v, "enabled", Bool(TRUE)))
ProfileSub == Get(user_data.v, "uuid", msg)

\* the same letters, case aside
SameIgnoringCase(s, t) ==
    /\ Len(s) = Len(t)
    /\ \A i \in 1..Len(s) : LowerChar(s[i]) = LowerChar(t[i])

\* the marker occurs in s in some casing
OccursInAnyCasing(s, marker) ==
    \E i \in 1..Len(s) :
        /\ i + Len(marker) - 1 <= Len(s)
        /\ \A k \in 1..Len(marker) : LowerChar(s[i + k - 1]) = LowerChar(marker[k])

\* roles is a string with the marker, or a list with an element that has it
HasAdminMarker(roles) ==
    \/ roles.t = "str" /\ OccursInAnyCasing(roles.v, ADMIN)
    \/ /\ roles.t = "list"
       /\ \E i \in 1..Len(roles.v) :
            roles.v[i].t = "str" /\ OccursInAnyCasing(roles.v[i].v, ADMIN)

\* a row that was in the store when the message arrived has this oauth_sub
\* or, case aside, this email
ExistedBefore(sub, email) ==
    \E r \in before :
        \/ r.oauth_sub = sub
        \/ email.t = "str" /\ r.email.t = "str" /\ SameIgnoringCase(r.email.v, email.v)

----------------------------------------------------------------------------
(* C1 *)

\* the step is one in which the pipeline fails: the resolver comes back
\* empty-handed, a store call raises or fails, or the body raises
FailureStep ==
    /\ pc \in PipelinePcs
    /\ \/ pc' = "Resolved" /\ resp' \in {"token_error", "404", "500", "request_error", "bad_json"}
       \/ IsError(outcome')
       \/ outcome' = "insert_failed"

----------------------------------------------------------------------------
(* C2 *)

C2_Case ==
    /\ MessageDone
    /\ resp = "200"
    /\ HasProfile
    /\ ProfileEnabled
    /\ ProfileEmail.t = "str"
    /\ ProfileEmail.v # <<>>
    /\ ~ExistedBefore(ProfileSub, ProfileEmail)
    /\ outcome # "error_lookup"

\* C2: a message with a non-blank identifier, resolved to an enabled profile
\* with a non-empty email that no row of the store shares (nor its
\* oauth_sub), the store answering both lookups: insert is called exactly
\* once, with the lower-cased email and the role derived from the roles.
C2_InsertedOnce ==
    C2_Case =>
        /\ cnt.insert = 1
        /\ lastInsert.email.t = "str"
        /\ SameIgnoringCase(lastInsert.email.v, ProfileEmail.v)
        /\ \A i \in 1..Len(lastInsert.email.v) :
              ~IsIn(lastInsert.email.v[i], UpperLetters)
        /\ lastInsert.role = IF HasAdminMarker(ProfileRoles) THEN "admin" ELSE "user"

C2_Witness ==
    /\ C2_Case
    /\ outcome = "provisioned"
    /\ ProfileEmail = Str(<<"A", "@", "x">>)
    /\ lastInsert.email = Str(<<"a", "@", "x">>)
    /\ lastInsert.role = "admin"

----------------------------------------------------------------------------
(* C3 *)

\* C3: once an insert for an identity (oauth_sub, email) has succeeded, a
\* later delivery of that identity finds the row and calls insert no more:
\* the insert calls for it, the successful one included, number exactly one.
C3_OneInsertPerIdentity ==
    \A e \in ledger : e.calls = 1

C3_Witness ==
    /\ delivered >= 2
    /\ outcome = "skip_duplicate"
    /\ cnt.insert = 0
    /\ loc.email.t = "str"
    /\ \E e \in ledger :
        /\ e.oauth_sub = loc.oauth_sub
        /\ e.email = Str(PyLower(loc.email.v))
        /\ e.calls = 1

----------------------------------------------------------------------------
(* C4 *)

\* C4: a record whose bytes are no UTF-8 leaves the loop Consuming, the
\* subscription open and the store as it was.
C4_UndecodableIsSkipped ==
    [][(pc = "Consuming" /\ delivered' = delivered + 1 /\ DeserializerRaises(raw')) =>
            /\ pc' = "Consuming"
            /\ consumer' = "started"
            /\ store' = store]_vars

----------------------------------------------------------------------------
(* C5 *)

\* C5: for a profile with enabled = false no insert is called, whatever
\* its other fields and whatever the store holds.
C5_DisabledNeverInserted ==
    (HasProfile /\ user_data.v.enabled = Bool(FALSE)) =>
        /\ cnt.insert = 0
        /\ pc # "Insert"
        /\ store = before
        /\ outcome \in {"none", "skip_disabled"}

C5_Witness ==
    /\ HasProfile
    /\ user_data.v.enabled = Bool(FALSE)
    /\ outcome = "skip_disabled"
    /\ ProfileEmail = Str(<<"b", "@", "x">>)
    /\ ~ExistedBefore(ProfileSub, ProfileEmail)
    /\ ProfileRoles.t = "list"

----------------------------------------------------------------------------
(* C6 *)

\* C6: the role passed to insert is "admin" exactly when roles is a string
\* that contains the admin marker in some casing or a list with such an
\* element; for absent roles, an empty list, a list without it or a value
\* of another type it is "user".
C6_RoleDerivation ==
    cnt.insert >= 1 =>
        /\ lastInsert.role \in {"admin", "user"}
        /\ lastInsert.role = "admin" <=> HasAdminMarker(ProfileRoles)

C6_Witness ==
    /\ cnt.insert = 1
    /\ lastInsert.role = "admin"
    /\ ProfileRoles = Str(<<"s", "u", "b", "A", "d", "m", "i", "n">>)

----------------------------------------------------------------------------
(* C7 *)

\* C7: after a 404 on the profile GET the message is skipped: no lookup,
\* no insert, nothing raised out of the boundary, and the loop goes on.
C7_NotFoundSkipped ==
    resp = "404" =>
        /\ cnt.by_sub = 0
        /\ cnt.by_email = 0
        /\ cnt.insert = 0
        /\ store = before
        /\ pc \notin {"Lookup", "Insert"}
        /\ outcome \in {"none", "skip_unresolved"}
        /\ outcome = "none" => pc = "Resolved"
        /\ raised \in {"none", "CancelledError"}
        /\ ~Terminated => consumer = "started" /\ raised = "none"

C7_Witness ==
    /\ resp = "404"
    /\ outcome = "skip_unresolved"
    /\ pc = "Consuming"
    /\ delivered < MaxMsgs

----------------------------------------------------------------------------
(* C8 *)

\* C8: with this loop the only writer, insert is never called while a row
\* with the event's oauth_sub or, case aside, its email exists, and the
\* store never holds two rows with one oauth_sub or with emails that differ
\* in case at most.
C8_NoDuplicateRows ==
    /\ \A r1, r2 \in store :
          r1.id # r2.id =>
              /\ r1.oauth_sub # r2.oauth_sub
              /\ ~SameIgnoringCase(r1.email.v, r2.email.v)
    /\ pc = "Insert" => ~ExistedBefore(loc.oauth_sub, loc.email) /\ store = before
    /\ cnt.insert >= 1 => ~ExistedBefore(lastInsert.oauth_sub, lastInsert.email)

C8_Witness ==
    /\ Cardinality(store) = 1
    /\ delivered >= 2
    /\ outcome = "skip_duplicate"
    /\ cnt.by_email = 1
    /\ loc.email = Str(<<"A", "@", "x">>)

----------------------------------------------------------------------------
(* C9 *)

\* C9: the skips are decided in the order disabled, missing email,
\* duplicate; the first that holds gives the reason, none of them inserts,
\* and insert is called only when none holds.
C9_Precedence ==
    (MessageDone /\ HasProfile) =>
        /\ ~ProfileEnabled => outcome = "skip_disabled"
        /\ (ProfileEnabled /\ ~Truthy(ProfileEmail)) => outcome = "skip_missing_email"
        /\ (ProfileEnabled /\ Truthy(ProfileEmail) /\ ExistedBefore(ProfileSub, ProfileEmail))
              => outcome \in {"skip_duplicate", "error_lookup"}
        /\ outcome \in {"skip_disabled", "skip_missing_email", "skip_duplicate"}
              => cnt.insert = 0 /\ store = before
        /\ cnt.insert >= 1 =>
              /\ ProfileEnabled
              /\ Truthy(ProfileEmail)
              /\ ~ExistedBefore(ProfileSub, ProfileEmail)

C9_Witness ==
    /\ MessageDone
    /\ HasProfile
    /\ outcome = "skip_disabled"
    /\ ~Truthy(ProfileEmail)
    /\ \E r \in before : r.oauth_sub = ProfileSub

----------------------------------------------------------------------------
(* C10 *)

\* C10: when opening the subscription fails the function returns from
\* Disconnected: it never consumes, calls neither resolver nor store, and
\* makes no second attempt.
C10_ConnectFailureIsFinal ==
    /\ connects <= 1
    /\ consumer \in {"none", "created"} =>
          /\ pc \in {"Disconnected", "Returned"}
          /\ connects = 1 => pc = "Returned"
          /\ delivered = 0
          /\ cnt = NoCalls
          /\ store = {}
          /\ outcome = "none"
          /\ stops = 0

C10_Witness ==
    /\ pc = "Returned"
    /\ consumer = "created"
    /\ connects = 1

----------------------------------------------------------------------------
(* C11 *)

\* control is back with the caller
BackWithCaller == pc \in {"Returned", "Raised"}

\* C11: once the consumer was started, every way out of the loop (the
\* iterator ends, a cancellation at an await, an exception of the iterator)
\* calls stop exactly once, the call is over when control is back with the
\* caller, and after the loop was left no record is pulled and no resolver
\* or store call is made.
C11_StoppedOnceOnExit ==
    /\ [](stops <= 1)
    /\ [](consumer = "started" => stops = 0 /\ ~BackWithCaller)
    /\ [](BackWithCaller /\ consumer \notin {"none", "created"} =>
            stops = 1 /\ consumer = "stopped")
    /\ [][stops' # stops => pc = "Stopping" /\ BackWithCaller']_vars
    /\ [][Terminated =>
            /\ Terminated'
            /\ delivered' = delivered
            /\ cnt' = cnt
            /\ store' = store
            /\ outcome' = outcome]_vars

C11_Witness ==
    /\ pc = "Raised"
    /\ raised = "CancelledError"
    /\ cnt.token = 1
    /\ outcome = "none"
    /\ consumer = "stopped"
    /\ stops = 1

----------------------------------------------------------------------------
(* C12 *)

\* C12: one record at a time and in the order of delivery: a record is
\* pulled only between iterations, after the record before it reached its
\* outcome; the record in the loop body is the one pulled last and has no
\* outcome yet; and every resolver or store call is made for the record in
\* the loop body.
C12_OneMessageAtATime ==
    /\ [](pc \in PipelinePcs =>
            /\ delivered >= 1
            /\ ~MessageDone
            /\ msg = value_deserializer(raw))
    /\ [][delivered' # delivered =>
            /\ delivered' = delivered + 1
            /\ pc = "Consuming"
            /\ delivered > 0 => MessageDone]_vars
    /\ [][cnt' # cnt /\ delivered' = delivered =>
            /\ pc \in PipelinePcs
            /\ ~MessageDone
            /\ \A k \in DOMAIN cnt : cnt'[k] >= cnt[k]]_vars
    /\ [][store' # store => pc = "Insert" /\ delivered' = delivered]_vars

C12_Witness ==
    /\ delivered = 2
    /\ pc = "Get"
    /\ Cardinality(store) = 1
    /\ before = store
    /\ cnt.token = 1

----------------------------------------------------------------------------
(* C13 *)

\* the record pulled last has no value, no bytes, or nothing but spaces
BlankRecord ==
    /\ delivered > 0
    /\ \/ raw = NoValue
       \/ \A i \in 1..Len(raw) : raw[i] = 32

\* C13: a record whose value is absent, empty or whitespace is skipped
\* where it is read: no token request, no profile request, no lookup and no
\* insert are made for it, the store is as it was, and the loop waits for the
\* next record.
C13_BlankSkipped ==
    BlankRecord =>
        /\ outcome = "skip_blank"
        /\ cnt = NoCalls
        /\ lastInsert = NoInsert
        /\ resp = "none"
        /\ user_data = NONE
        /\ store = before
        /\ raised # "UnicodeDecodeError"
        /\ ~Terminated => pc = "Consuming"

C13_Witness ==
    /\ raw = <<32>>
    /\ delivered = 2
    /\ outcome = "skip_blank"
    /\ pc = "Consuming"
    /\ Cardinality(store) = 1

----------------------------------------------------------------------------
(* C14 *)

\* the resolver made no network call and yielded no profile
NoNetworkCall ==
    /\ cnt.token = 0
    /\ cnt.get = 0
    /\ user_data = NONE

\* C14: whenever one of client id, client secret, token endpoint or scope is
\* not configured, the resolver yields no profile and issues no network call.
C14_AnyMissingSettingStopsResolver ==
    (\E k \in {"client_id", "client_secret", "token_endpoint", "scope"} : ~cfg[k])
        => NoNetworkCall

\* C14 as amended: whenever one of client id, client secret or token endpoint
\* is not configured, the resolver yields no profile and issues no network
\* call, and the record is skipped with the store untouched; the resolver is
\* stopped by nothing else before its first request.
C14_MissingCredentialStopsResolver ==
    /\ (\E k \in {"client_id", "client_secret", "token_endpoint"} : ~cfg[k]) =>
          /\ NoNetworkCall
          /\ resp \in {"none", "not_configured"}
          /\ outcome \in {"none", "skip_blank", "skip_unresolved"}
          /\ cnt = NoCalls
          /\ store = {}
    /\ resp = "not_configured" =>
          \E k \in {"client_id", "client_secret", "token_endpoint"} : ~cfg[k]

C14_Witness ==
    /\ ~cfg.token_endpoint
    /\ resp = "not_configured"
    /\ outcome = "skip_unresolved"
    /\ delivered = 2
    /\ pc = "Consuming"

----------------------------------------------------------------------------
(* C15 *)

\* C15: insert is called at most once for a record; when it returned None
\* that one call is all the record gets: the store is as the record found
\* it, the function is not left on its account, the loop is back at the
\* iterator, and the next step pulls a new record or ends the loop: nothing
\* takes the failed record up again.
C15_InsertFailureIsScoped ==
    /\ [](cnt.insert <= 1)
    /\ [](outcome = "insert_failed" =>
            /\ cnt.insert = 1
            /\ store = before
            /\ raised # "UnicodeDecodeError"
            /\ ~Terminated => pc = "Consuming")
    /\ [][outcome = "insert_failed" /\ pc = "Consuming" =>
            /\ delivered' = delivered + 1 \/ Terminated'
            /\ store' = store
            /\ cnt'.insert = 0 \/ cnt' = cnt]_vars

C15_Witness ==
    /\ outcome = "insert_failed"
    /\ cnt.insert = 1
    /\ pc = "Consuming"
    /\ delivered = 2
    /\ Cardinality(store) = 1

----------------------------------------------------------------------------
(* C16 *)

\* C16: when the token request of a record failed, the profile request is
\* not issued for it: the resolver comes back with no profile, the record is
\* skipped as unresolved with no lookup and no insert, and the loop is back
\* at the iterator.
C16_TokenFailureSkips ==
    resp = "token_error" =>
        /\ cnt = [NoCalls EXCEPT !.token = 1]
        /\ user_data = NONE
        /\ lastInsert = NoInsert
        /\ store = before
        /\ pc \notin {"Token", "Get", "Lookup", "Insert"}
        /\ pc = "Resolved" <=> outcome = "none"
        /\ outcome \in {"none", "skip_unresolved"}
        /\ raised # "UnicodeDecodeError"
        /\ MessageDone /\ ~Terminated => pc = "Consuming"

C16_Witness ==
    /\ resp = "token_error"
    /\ outcome = "skip_unresolved"
    /\ pc = "Consuming"
    /\ delivered = 2
    /\ Cardinality(store) = 1

----------------------------------------------------------------------------
(* C17 *)

\* the resolver of the record pulled last ended without a parsed profile:
\* no token, 404, another non-2xx status, a transport failure, a body that
\* is no JSON
ResolverFailed ==
    resp \in {"token_error", "404", "500", "request_error", "bad_json"}

\* C17: whatever way the resolver failed, the record leaves the store as it
\* found it: neither lookup and no insert is called for it, it ends as
\* skipped, never as an error, nothing is raised out of the function on its
\* account and the loop is back at the iterator.
C17_ResolverFailureLeavesStore ==
    ResolverFailed =>
        /\ user_data = NONE
        /\ cnt.by_sub = 0
        /\ cnt.by_email = 0
        /\ cnt.insert = 0
        /\ lastInsert = NoInsert
        /\ store = before
        /\ pc \notin {"Lookup", "Insert"}
        /\ outcome \in {"none", "skip_unresolved"}
        /\ raised # "UnicodeDecodeError"
        /\ consumer = "stopped" => pc \in {"Returned", "Raised"}
        /\ MessageDone /\ ~Terminated => pc = "Consuming" /\ consumer = "started"

C17_Witness ==
    /\ resp = "bad_json"
    /\ cnt.get = 1
    /\ outcome = "skip_unresolved"
    /\ pc = "Consuming"
    /\ delivered = 2
    /\ Cardinality(store) = 1

----------------------------------------------------------------------------
(* C18 *)

\* the resolver and both lookups were called, once each, for the record in
\* the loop body, and the resolver brought a profile
FetchedAndLookedUp ==
    /\ resp = "200"
    /\ HasProfile
    /\ cnt.token = 1
    /\ cnt.get = 1
    /\ cnt.by_sub = 1
    /\ cnt.by_email = 1

\* C18: an insert call comes after the profile was fetched with success and
\* after both lookups of the same record, by oauth_sub and by the lower-cased
\* email, found no row; the insert is reached from the lookups alone and is
\* the very next step after them.
C18_InsertAfterLookups ==
    /\ [](pc = "Insert" \/ cnt.insert >= 1 => FetchedAndLookedUp)
    /\ [](pc = "Insert" =>
            /\ ~MessageDone
            /\ store = before
            /\ loc.email.t = "str"
            /\ \A r \in store :
                /\ r.oauth_sub # loc.oauth_sub
                /\ r.email # Str(PyLower(loc.email.v)))
    /\ [][cnt'.insert # cnt.insert /\ delivered' = delivered =>
            pc = "Insert" /\ cnt'.insert = cnt.insert + 1]_vars
    /\ [][pc' = "Insert" /\ pc # "Insert" =>
            /\ pc = "Lookup"
            /\ cnt'.by_sub = cnt.by_sub + 1
            /\ cnt'.by_email = cnt.by_email + 1]_vars
    /\ [][pc = "Insert" => cnt'.insert = cnt.insert + 1 /\ pc' # "Insert"]_vars

C18_Witness ==
    /\ pc = "Insert"
    /\ delivered = 2
    /\ Cardinality(store) = 1
    /\ FetchedAndLookedUp

----------------------------------------------------------------------------
(* C19 *)

\* C19: for one record the resolver issues at most one token request and at
\* most one profile request; a request that was answered, with success or
\* failure, is never issued again: the resolver moves on or gives up.
C19_NoResolverRetries ==
    /\ [](cnt.token <= 1 /\ cnt.get <= 1)
    /\ [](pc = "Token" => cnt.token = 0 /\ cnt.get = 0)
    /\ [](pc = "Get" => cnt.token = 1 /\ cnt.get = 0)
    /\ [][cnt'.token = cnt.token + 1 => pc' \in {"Get", "Resolved"}]_vars
    /\ [][cnt'.get = cnt.get + 1 => pc' = "Resolved"]_vars

C19_Witness ==
    /\ cnt.token = 1
    /\ cnt.get = 1
    /\ resp = "500"
    /\ outcome = "skip_unresolved"
    /\ pc = "Consuming"
    /\ delivered = 3

----------------------------------------------------------------------------
(* C20 *)

\* the outcomes open to a record, from its value, the answers of the
\* identity service for it and the rows the store held when it arrived; the
\* store decides among them by answering, failing or raising
ExpectedEnds ==
    IF raw = NoValue \/ \A i \in 1..Len(raw) : raw[i] = 32
    THEN {"skip_blank"}
    ELSE IF resp # "200" \/ ~BodyTruthy(user_data)
    THEN {"skip_unresolved"}
    ELSE IF user_data.t # "dict"
    THEN {"error_attribute"}
    ELSE IF ~ProfileEnabled
    THEN {"skip_disabled"}
    ELSE IF ~Truthy(ProfileEmail)
    THEN {"skip_missing_email"}
    ELSE IF \E r \in before : r.oauth_sub = ProfileSub
    THEN {"skip_duplicate", "error_lookup"}
    ELSE IF ProfileEmail.t # "str"
    THEN {"error_attribute", "error_lookup"}
    ELSE IF ExistedBefore(ProfileSub, ProfileEmail)
    THEN {"skip_duplicate", "error_lookup"}
    ELSE {"provisioned", "insert_failed", "error_insert", "error_lookup"}

\* the arguments of the insert call, from the value and the profile alone
ExpectedInsert ==
    [email |-> Str(PyLower(ProfileEmail.v)),
     name |-> Get(user_data.v, "name", msg),
     profile_image_url |->
        IF Get(user_data.v, "profileImageUrl", NONE) = NONE
        THEN DefaultImage ELSE Get(user_data.v, "profileImageUrl", NONE),
     role |-> IF HasAdminMarker(ProfileRoles) THEN "admin" ELSE "user",
     oauth_sub |-> ProfileSub]

\* C20: nothing is carried from one record to the next. The outcome of a
\* record is one the value, the answers of the identity service for it and
\* the store at its arrival allow; the arguments of its insert call follow
\* from the value and the profile; a record starts with no call made and no
\* profile at hand; and a profile request is made with a token requested for
\* the same record.
C20_NoCrossEventState ==
    /\ [](MessageDone => outcome \in ExpectedEnds)
    /\ [](lastInsert = IF cnt.insert = 0 THEN NoInsert ELSE ExpectedInsert)
    /\ [](pc = "Get" \/ cnt.get >= 1 => cnt.token = 1)
    /\ [][delivered' = delivered + 1 /\ pc' \in PipelinePcs =>
            /\ cnt' = NoCalls
            /\ user_data' = NONE
            /\ loc' = NoLocals
            /\ lastInsert' = NoInsert
            /\ pc' = "Token" \/ ~ConfigComplete(cfg)]_vars

C20_Witness ==
    /\ delivered = 3
    /\ Cardinality(store) = 2
    /\ outcome = "skip_duplicate"
    /\ cnt.token = 1
    /\ cnt.get = 1
    /\ cnt.insert = 0

----------------------------------------------------------------------------
(* C21 *)

\* every row of the store was written by this consumer
OnlyWriter == \A r \in store : r.id # 0

\* a row of the store has the oauth_sub or the email of the insert at hand
InsertMeetsRow ==
    \E r \in store :
        \/ r.oauth_sub = loc.oauth_sub
        \/ loc.email.t = "str" /\ r.email = Str(PyLower(loc.email.v))

\* C21: the lookups and the insert are two steps. While this consumer is
\* the only writer, the store does not change between them and the insert
\* meets no row with its oauth_sub or email; the only writes that fall between
\* the lookups and the insert of a record are those of other writers.
C21_CheckThenInsert ==
    /\ [](pc = "Insert" /\ OnlyWriter => store = before /\ ~InsertMeetsRow)
    /\ [](pc = "Insert" /\ InsertMeetsRow => store # before /\ ~OnlyWriter)
    /\ [][store' # store /\ pc \in {"Lookup", "Insert"} /\ pc' = "Insert" =>
            (\E r \in store' \ store : r.id = 0)]_vars

\* insert was called, and went through, for an identity another writer had
\* added after the lookups: the store holds the oauth_sub twice
C21_Witness ==
    /\ outcome = "provisioned"
    /\ cnt.insert = 1
    /\ \E r \in store : \E q \in store :
        /\ r.id = 0
        /\ q.id # 0
        /\ r \notin before
        /\ q \notin before
        /\ r.oauth_sub = q.oauth_sub
        /\ q.oauth_sub = lastInsert.oauth_sub

----------------------------------------------------------------------------
(* C22 *)

\* C22: every record delivered while Consuming reaches an outcome and hands
\* the loop back to the iterator. In the form a finite run decides: pulling a
\* record never ends the loop, and a record that is no longer in the loop
\* body, and was not cut short by a cancellation, has its outcome.
C22_EveryRecordReachesOutcome ==
    /\ [][delivered' = delivered + 1 =>
            pc' \in PipelinePcs \cup {"Consuming"}]_vars
    /\ [](delivered > 0 /\ pc \notin PipelinePcs /\ raised # "CancelledError"
            => MessageDone)

----------------------------------------------------------------------------
(* C23 *)

\* the profile carries no value under this key: the key is absent or null
Lacks(key) == Get(user_data.v, key, NONE) = NONE

\* C23: in an insert call for a profile without a display name the name is
\* the oauth_sub of the same call, and for a profile without a profile image
\* URL the image is the placeholder.
C23_DefaultsOnInsert ==
    cnt.insert = 1 /\ HasProfile =>
        /\ Lacks("name") => lastInsert.name = lastInsert.oauth_sub
        /\ Lacks("profileImageUrl") => lastInsert.profile_image_url = DefaultImage

----------------------------------------------------------------------------
(* C25 *)

\* the profile's uuid when it has one, the message value otherwise
ExternalId == IF user_data.v.uuid # ABSENT THEN user_data.v.uuid ELSE msg

\* C25: the lookup by oauth_sub and the insert both use the profile's uuid
\* when it has one and the message value otherwise: a record whose identity
\* was in the store under that value is not inserted, an insert carries that
\* value as oauth_sub, and a provisioned profile whose uuid differs from the
\* message value leaves a row under the uuid and none under the message value.
C25_ProvisionedUnderProfileUuid ==
    HasProfile =>
        /\ pc \in {"Lookup", "Insert"} => loc.oauth_sub = ExternalId
        /\ (\E r \in before : r.oauth_sub = ExternalId) =>
              cnt.insert = 0 /\ pc # "Insert"
        /\ cnt.insert = 1 => lastInsert.oauth_sub = ExternalId
        /\ outcome = "provisioned" =>
              /\ \E r \in store \ before : r.oauth_sub = ExternalId
              /\ ExternalId # msg => \A r \in store \ before : r.oauth_sub # msg

C25_Witness ==
    /\ HasProfile
    /\ outcome = "provisioned"
    /\ msg = Str(<<"u", "1">>)
    /\ user_data.v.uuid = Str(<<"u", "2">>)
    /\ \E r \in before : r.oauth_sub = msg
    /\ \E r \in store \ before : r.oauth_sub = Str(<<"u", "2">>)

----------------------------------------------------------------------------
(* C24 *)

\* the first place of s that holds one of the marks, Len(s) + 1 when none does
FirstOf(s, marks) ==
    IF \E i \in 1..Len(s) : s[i] \in marks
    THEN CHOOSE i \in 1..Len(s) : s[i] \in marks /\ \A j \in 1..(i - 1) : s[j] \notin marks
    ELSE Len(s) + 1

\* the address as a client and a server read it: after "http://" the host up
\* to the first of / ? #, the fragment from the first #, the query from the
\* first ? before it, the path in between
AfterScheme == SubSeq(url, 8, Len(url))
UrlHost == SubSeq(AfterScheme, 1, FirstOf(AfterScheme, {"/", "?", "#"}) - 1)
AfterHost == SubSeq(AfterScheme, FirstOf(AfterScheme, {"/", "?", "#"}), Len(AfterScheme))
HasFragment == \E i \in 1..Len(AfterHost) : AfterHost[i] = "#"
BeforeFragment == SubSeq(AfterHost, 1, FirstOf(AfterHost, {"#"}) - 1)
HasQuery == \E i \in 1..Len(BeforeFragment) : BeforeFragment[i] = "?"
UrlPath == SubSeq(BeforeFragment, 1, FirstOf(BeforeFragment, {"?"}) - 1)

\* the segments of a path that starts with a slash
RECURSIVE Segments(_)
Segments(path) ==
    IF path = <<>> THEN <<>>
    ELSE LET rest == SubSeq(path, 2, Len(path))
             n == FirstOf(rest, {"/"})
         IN <<SubSeq(rest, 1, n - 1)>> \o Segments(SubSeq(rest, n, Len(rest)))

\* C24: whatever the identifier, the request goes to the configured host,
\* carries no query and no fragment, and its path is the base path, users,
\* and one more segment that is neither empty nor a dot segment.
C24_IdentifierIsOneSegment ==
    url # <<>> =>
        /\ UrlHost = <<"h">>
        /\ ~HasQuery
        /\ ~HasFragment
        /\ Len(Segments(UrlPath)) = 3
        /\ Segments(UrlPath)[1] = <<"a", "p", "i">>
        /\ Segments(UrlPath)[2] = <<"u", "s", "e", "r", "s">>
        /\ Segments(UrlPath)[3] \notin {<<>>, <<".">>, <<".", ".">>}

----------------------------------------------------------------------------
(* C26 *)

\* the handler has returned or raised
HandlerEnded == spc \in {"returned", "raised"}

\* the conversion to WAV succeeded
ConversionSucceeded == cleanup_file = "converted"

\* the handler never deletes the audio file it was given
OriginalKept == [][("original" \in files) => ("original" \in files')]_vars

\* C26: in the OpenAI and Azure handlers, once the conversion to WAV has
\* succeeded the converted file is gone when the handler returns or raises,
\* on every path, and the original audio file is never deleted.
C26_ConvertedFileAlwaysRemoved ==
    /\ [](HandlerEnded /\ ConversionSucceeded => "converted" \notin files)
    /\ OriginalKept

\* C26: in the OpenAI and Azure handlers, once the conversion to WAV has
\* succeeded the converted file is gone when the handler returns or raises,
\* whether the request succeeded or not, unless os.remove itself raised; the
\* original audio file is never deleted.
C26_ConvertedFileRemovedUnlessRemoveFails ==
    /\ [](HandlerEnded /\ ConversionSucceeded /\ ~remove_failed
            => "converted" \notin files)
    /\ [](spc = "request" /\ ConversionSucceeded => "converted" \in files)
    /\ OriginalKept

\* the converted file was sent, the request failed and the file is gone
C26_Witness ==
    /\ handler = "openai"
    /\ spc = "raised"
    /\ ConversionSucceeded
    /\ sent = 1
    /\ files = {"original"}

----------------------------------------------------------------------------
(* C28 *)

\* C28: handle_azure_stt never returns a transcription: past the file, size,
\* credential and format checks the call ends in an exception, no request
\* has been sent, the poll function has not been entered and no transcript
\* file is written.
C28_AzureNeverTranscribes ==
    handler = "azure" =>
        /\ spc # "returned"
        /\ sent = 0
        /\ ppc = "idle"
        /\ "transcript" \notin files
        /\ (spc = "finally" => pending = "raise")

\* an Azure call that passed every check, converted the file and raised
C28_Witness ==
    /\ handler = "azure"
    /\ spc = "raised"
    /\ pending = "raise"
    /\ ConversionSucceeded

----------------------------------------------------------------------------
(* C27 *)

\* the statuses on which the function waits and polls again
InProgress == {"notstarted", "running"}

\* a second or later status request follows a status in progress
PollsAgainOnlyInProgress ==
    [][polls' > polls /\ polls > 0 => job_status \in InProgress]_vars

\* any other status ends the function in the iteration that read it
OtherStatusEndsAtOnce ==
    [][ppc = "status" /\ job_status \notin InProgress =>
          /\ ppc' = "ended"
          /\ polls' = polls
          /\ presult' \in IF job_status = "succeeded"
                          THEN {"result", "error"} ELSE {"error"}]_vars

\* past the timeout the next iteration raises before any request
TimeoutAtLoopTop ==
    [][ppc = "top" /\ elapsed > AZURE_POLLING_TIMEOUT_SECONDS =>
          ppc' = "ended" /\ presult' = "timeout" /\ polls' = polls]_vars

\* C27: poll_for_transcription_results terminates for every sequence of
\* statuses: it polls again only after 'notstarted' or 'running';
\* 'succeeded' ends in a result or an error, 'failed', 'canceled' and any
\* unknown status in an error, in that same iteration; a job that stays in
\* progress ends in a timeout error at the top of the first iteration past
\* the polling timeout.
C27_PollingTerminates ==
    /\ PollsAgainOnlyInProgress
    /\ OtherStatusEndsAtOnce
    /\ TimeoutAtLoopTop
    /\ [](presult = "timeout" =>
            elapsed > AZURE_POLLING_TIMEOUT_SECONDS /\ job_status \in InProgress)
    /\ <>(ppc = "ended")

\* the job stayed in progress and every request was answered at once: the
\* function gave up after 61 requests
C27_Witness ==
    /\ ppc = "ended"
    /\ presult = "timeout"
    /\ job_status = "running"
    /\ polls * AZURE_POLLING_INTERVAL_SECONDS = elapsed

----------------------------------------------------------------------------
(* C29 *)

\* C29: over the calls of handle_local_stt on one application state, a load
\* is attempted only when the state holds no model; after a failed load the
\* call raises, the state still holds no model and the next call loads
\* again; a loaded model is kept and never reloaded; transcription runs only
\* with a model.
C29_LazyModelLoading ==
    /\ [](lpc = "load" => whisper # "model")
    /\ [](lpc = "transcribe" => whisper = "model")
    /\ [][lpc = "load" /\ set_result' = "None" =>
            lpc' = "raised" /\ whisper' = "None"]_vars
    /\ [][calls' > calls /\ whisper # "model" => lpc' = "load"]_vars
    /\ [][whisper = "model" => whisper' = "model" /\ lpc' # "load"]_vars

\* the second call loaded the model, so the first had failed to and had
\* raised, and went on to return the transcription
C29_Witness ==
    /\ calls = MaxCalls - 1
    /\ set_result = "model"
    /\ whisper = "model"
    /\ lpc = "returned"

----------------------------------------------------------------------------
(* C30 *)

\* C30: set_faster_whisper_model makes at most two load attempts per call,
\* the first with local_files_only = not auto_update and, only after that
\* one failed, a second with local_files_only = false; it returns the model
\* of the first attempt that succeeds and None when both fail or no model
\* name is given; it never raises on a load failure.
C30_AtMostTwoAttempts ==
    set_result # "none" =>
        /\ Len(attempts) <= 2
        /\ set_result \in {"model", "None"}
        /\ (~model => attempts = <<>> /\ set_result = "None")
        /\ (Len(attempts) >= 1 => attempts[1].local_files_only = ~auto_update)
        /\ (Len(attempts) = 2 =>
              ~attempts[1].ok /\ attempts[2].local_files_only = FALSE)
        /\ (set_result = "model" <=>
              Len(attempts) >= 1 /\ attempts[Len(attempts)].ok)
        /\ (set_result = "None" /\ attempts # <<>> =>
              Len(attempts) = 2 /\ ~attempts[2].ok)

\* without auto update: the load from the local files failed, the second
\* attempt, with downloads allowed, gave the model
C30_Witness ==
    /\ ~auto_update
    /\ Len(attempts) = 2
    /\ attempts[1].local_files_only
    /\ set_result = "model"

====
